---- MODULE Spec2Model ----
(***************************************************************************)
(* Diabetes Risk Awareness Tool (src/app.py).                              *)
(*                                                                         *)
(* The program is a Streamlit script: every interaction re-runs it from    *)
(* top to bottom.  The widgets keep their values between runs; the model   *)
(* artifact and the reference data are loaded by every run and never       *)
(* written.  A run in which the button was pressed renders the risk        *)
(* assessment; any other run renders only the input form.                  *)
(*                                                                         *)
(* Units.  bmi and dpf are carried in hundredths (bmi = 2422 is 24.22,     *)
(* dpf = 50 is 0.50), so that round(..., 2) and "dpf == 0.0" are exact.    *)
(* probability is a percentage; the model samples it at whole percents.    *)
(* st.progress values are carried in hundredths (25 is 0.25).              *)
(***************************************************************************)
EXTENDS Integers, Sequences, FiniteSets

VARIABLES
    age, height_cm, weight_kg, glucose, dpf,   \* widget values (session)
    model, X,                                  \* frozen artifacts
    bmi,                                       \* derived by every run
    button,                                    \* st.button(...) in the last run
    medically_low_risk, probability, risk_level, progress,
    shap_values, explanation,                  \* rendered by a pressed run
    last_eval                                  \* history: the assessment rendered
                                               \* before the current page

vars == <<age, height_cm, weight_kg, glucose, dpf, model, X, bmi, button,
          medically_low_risk, probability, risk_level, progress,
          shap_values, explanation, last_eval>>

widgets == <<age, height_cm, weight_kg, glucose, dpf>>

----------------------------------------------------------------------------
\* Bounds of the model.

\* Number of candidate model artifacts (diabetes_model.pkl is opaque).
NumModels == 9

\* Number of candidate reference datasets (data/diabetes.csv is opaque).
NumDatasets == 2

\* Values the user enters into the widgets; each lies in the widget's range
\* and the defaults of the widgets are among them.
AgeVals == {30, 40}

HeightVals == {150, 170}

WeightVals == {70, 72, 90}

GlucoseVals == {99, 100, 110, 120}

DpfVals == {0, 50}

\* Widgets the model never moves: they stay at their defaults.
pregnancies == 0

blood_pressure == 80

skin_thickness == 20

insulin == 80

\* Probabilities (percent) a model artifact can return.
ProbGrid == <<0, 34, 35, 55, 69, 70, 71, 80, 100>>

\* Per-feature signed contributions an explainer can return.
ImpactGrid ==
    << <<1, 5, -2, 0, 3, -4, 2, 1>>,
       <<2, 2, 2, 2, 2, 2, 2, 2>>,
       <<0, 0, 0, 0, 0, 0, 0, 0>>,
       <<-3, 3, 1, -3, 3, 0, 2, -1>>,
       <<1, 2, 3, 4, 5, 6, 7, 8>>,
       <<0, 4, -1, 2, -4, 2, 0, 1>>,
       <<-1, 0, 0, -6, 0, 0, 6, -6>>,
       <<5, -5, 0, 1, -1, 1, 1, 0>> >>

----------------------------------------------------------------------------
\* Values of the rendered fields in a run that renders no assessment.

NoProbability == -1

NoEval == [pressed |-> FALSE]

----------------------------------------------------------------------------
\* Pure helpers.

Abs(v) == IF v < 0 THEN -v ELSE v

RECURSIVE SumSeq(_)
SumSeq(s) == IF s = <<>> THEN 0 ELSE s[1] + SumSeq(Tail(s))

\* Variant: the quotient cut to 2 decimals instead of rounded.
BmiTruncated(h, w) == (w * 1000000) \div (h * h)

\* bmi = round(weight_kg / (height_m ** 2), 2), in hundredths.  The exact
\* quotient is weight_kg * 10^6 / height_cm^2 hundredths; round() returns
\* the nearest hundredth of the double quotient.  Where the exact quotient
\* lies half-way between two hundredths (height 160 with weight 56, 72, ...;
\* 14 pairs in the widgets' ranges) the double height_m ** 2 is slightly
\* above the exact square, the double quotient slightly below the half-way
\* point, and round() returns the lower hundredth.
Bmi(h, w) == (2 * w * 1000000 + h * h - 1) \div (2 * h * h)

\* user_data = np.array([[pregnancies, glucose, ..., dpf, bmi, age]])
UserData(a, g, d, b) ==
    <<pregnancies, g, blood_pressure, skin_thickness, insulin, d, b, a>>

\* model.predict_proba(user_data)[0][1] * 100.  The artifact is opaque: a
\* fixed function of the feature vector, one of NumModels candidates.  The
\* candidates are rotations of ProbGrid, so that every feature vector meets
\* every probability of the grid under some artifact.
PredictProba(m, ud) == ProbGrid[((m + SumSeq(ud)) % Len(ProbGrid)) + 1]

\* explainer(user_data).values[0], explainer = shap.Explainer(model step, X):
\* a fixed function of the feature vector, determined by model and X.
ShapValues(m, x, ud) ==
    ImpactGrid[((m + 3 * x + SumSeq(ud)) % Len(ImpactGrid)) + 1]

\* SAFETY RULE 1
MedicallyLowRisk(g, d, b) == g < 100 /\ d = 0 /\ b < 3200

\* Variant: the guard takes its glucose threshold from rule 1.
AgeBiasGuardGlucose100(p, g, d) == IF p > 70 /\ g < 100 /\ d = 0 THEN 55 ELSE p

\* Variant: the guard looks at the probability alone.
AgeBiasGuardUnconditional(p, g, d) == IF p > 70 THEN 55 ELSE p

\* Variant: the guard clamps into the LOW range.
AgeBiasGuardClampLow(p, g, d) == IF p > 70 /\ g < 110 /\ d = 0 THEN 30 ELSE p

\* SAFETY RULE 2: the value of probability after the guard.
AgeBiasGuard(p, g, d) == IF p > 70 /\ g < 110 /\ d = 0 THEN 55 ELSE p

\* Variant: the probability branches come before the override.
RiskBandProbabilityFirst(mlr, p) ==
    IF p < 35 THEN "LOW"
    ELSE IF p < 70 THEN "MODERATE"
    ELSE IF mlr THEN "LOW"
    ELSE "HIGH"

\* Variant: the comparisons include the thresholds.
RiskBandInclusive(mlr, p) ==
    IF mlr THEN "LOW"
    ELSE IF p <= 35 THEN "LOW"
    ELSE IF p <= 70 THEN "MODERATE"
    ELSE "HIGH"

\* Risk band logic.
RiskBand(mlr, p) ==
    IF mlr THEN "LOW"
    ELSE IF p < 35 THEN "LOW"
    ELSE IF p < 70 THEN "MODERATE"
    ELSE "HIGH"

\* Variant: the meter split in equal thirds.
RiskMeterThirds(level) ==
    IF level = "LOW" THEN 33
    ELSE IF level = "MODERATE" THEN 66
    ELSE 100

\* Risk meter: the argument of st.progress, in hundredths.
RiskMeter(level) ==
    IF level = "LOW" THEN 25
    ELSE IF level = "MODERATE" THEN 60
    ELSE 90

\* Variant: p goes in front of the pairs with an equal key (what sorting
\* ascending and reversing the list does to ties).
InsertBeforeTies(p, s) ==
    LET k == Cardinality({i \in 1..Len(s) : Abs(s[i][2]) > Abs(p[2])})
    IN  SubSeq(s, 1, k) \o <<p>> \o SubSeq(s, k + 1, Len(s))

\* One step of sorted(..., key=lambda x: abs(x[1]), reverse=True): p goes
\* behind every pair whose key is at least its own (the sort is stable, and
\* reverse=True keeps the original order of pairs with equal keys).
Insert(p, s) ==
    LET k == Cardinality({i \in 1..Len(s) : Abs(s[i][2]) >= Abs(p[2])})
    IN  SubSeq(s, 1, k) \o <<p>> \o SubSeq(s, k + 1, Len(s))

RECURSIVE SortedByAbs(_)
SortedByAbs(s) ==
    IF s = <<>> THEN <<>>
    ELSE Insert(s[Len(s)], SortedByAbs(SubSeq(s, 1, Len(s) - 1)))

\* zip(X.columns, impacts): a column is named by its position.
Zip(impacts) == [i \in 1..Len(impacts) |-> <<i, impacts[i]>>]

\* The st.info lines of explanation[:3].
TopThree(impacts) ==
    LET e == SortedByAbs(Zip(impacts))
    IN  [i \in 1..(IF Len(e) < 3 THEN Len(e) ELSE 3) |->
            [feature |-> e[i][1], stronger |-> e[i][2] > 0]]

----------------------------------------------------------------------------
\* State.

Init ==
    /\ age = 30
    /\ height_cm = 170
    /\ weight_kg = 70
    /\ glucose = 120
    /\ dpf = 0
    /\ model \in 0..(NumModels - 1)
    /\ X \in 0..(NumDatasets - 1)
    /\ bmi = Bmi(170, 70)
    /\ button = FALSE
    /\ medically_low_risk = FALSE
    /\ probability = NoProbability
    /\ risk_level = "NONE"
    /\ progress = 0
    /\ shap_values = <<>>
    /\ explanation = <<>>
    /\ last_eval = NoEval

\* The assessment a pressed run renders, as a record.
Assessment(ud, mlr, p, level, meter, sv, ex) ==
    [pressed |-> TRUE, user_data |-> ud, medically_low_risk |-> mlr,
     probability |-> p, risk_level |-> level, progress |-> meter,
     shap_values |-> sv, explanation |-> ex]

\* The assessment on the current page, if it shows one.
Rendered ==
    IF button
    THEN Assessment(UserData(age, glucose, dpf, bmi), medically_low_risk,
                    probability, risk_level, progress, shap_values,
                    explanation)
    ELSE NoEval

\* History: a run replaces the page; the assessment it replaces is kept.
Replace == last_eval' = IF button THEN Rendered ELSE last_eval

\* A run of the script in which the button is not pressed: the form and the
\* BMI caption are rendered, the assessment is not.
FormOnly ==
    /\ button' = FALSE
    /\ medically_low_risk' = FALSE
    /\ probability' = NoProbability
    /\ risk_level' = "NONE"
    /\ progress' = 0
    /\ shap_values' = <<>>
    /\ explanation' = <<>>
    /\ Replace
    /\ UNCHANGED <<model, X>>

SetAge ==
    \E v \in AgeVals \ {age} :
        /\ age' = v
        /\ UNCHANGED <<height_cm, weight_kg, glucose, dpf, bmi>>
        /\ FormOnly

SetHeight ==
    \E v \in HeightVals \ {height_cm} :
        /\ height_cm' = v
        /\ bmi' = Bmi(v, weight_kg)
        /\ UNCHANGED <<age, weight_kg, glucose, dpf>>
        /\ FormOnly

SetWeight ==
    \E v \in WeightVals \ {weight_kg} :
        /\ weight_kg' = v
        /\ bmi' = Bmi(height_cm, v)
        /\ UNCHANGED <<age, height_cm, glucose, dpf>>
        /\ FormOnly

SetGlucose ==
    \E v \in GlucoseVals \ {glucose} :
        /\ glucose' = v
        /\ UNCHANGED <<age, height_cm, weight_kg, dpf, bmi>>
        /\ FormOnly

SetDpf ==
    \E v \in DpfVals \ {dpf} :
        /\ dpf' = v
        /\ UNCHANGED <<age, height_cm, weight_kg, glucose, bmi>>
        /\ FormOnly

\* Variant: the pressed run adds the user's row to the reference data.
ReferenceDataGrows == model' = model /\ X' = (X + 1) % NumDatasets

\* The pressed run reads model and X (predict_proba, explainer) and assigns
\* neither.
ArtifactsRead == UNCHANGED <<model, X>>

\* A run of the script in which "Check Diabetes Risk" is pressed.
CheckDiabetesRisk ==
    LET b     == Bmi(height_cm, weight_kg)
        ud    == UserData(age, glucose, dpf, b)
        mlr   == MedicallyLowRisk(glucose, dpf, b)
        p     == AgeBiasGuard(PredictProba(model, ud), glucose, dpf)
        level == RiskBand(mlr, p)
        sv    == IF mlr THEN <<>> ELSE ShapValues(model, X, ud)
        ex    == IF mlr THEN <<>> ELSE TopThree(sv)
    IN  /\ bmi' = b
        /\ button' = TRUE
        /\ medically_low_risk' = mlr
        /\ probability' = p
        /\ risk_level' = level
        /\ progress' = RiskMeter(level)
        /\ shap_values' = sv
        /\ explanation' = ex
        /\ Replace
        /\ ArtifactsRead
        /\ UNCHANGED <<age, height_cm, weight_kg, glucose, dpf>>

Next ==
    \/ SetAge
    \/ SetHeight
    \/ SetWeight
    \/ SetGlucose
    \/ SetDpf
    \/ CheckDiabetesRisk

Spec == Init /\ [][Next]_vars

----------------------------------------------------------------------------
\* The BMI calculation over the whole range of the height and weight
\* widgets: the form as the user left it, then any run of the script that
\* computes bmi.

MinHeight == 100

MaxHeight == 220

MinWeight == 30

MaxWeight == 200

InitBmi ==
    /\ age = 30
    /\ height_cm \in MinHeight..MaxHeight
    /\ weight_kg \in MinWeight..MaxWeight
    /\ glucose = 120
    /\ dpf = 0
    /\ model = 0
    /\ X = 0
    /\ bmi = Bmi(height_cm, weight_kg)
    /\ button = FALSE
    /\ medically_low_risk = FALSE
    /\ probability = NoProbability
    /\ risk_level = "NONE"
    /\ progress = 0
    /\ shap_values = <<>>
    /\ explanation = <<>>
    /\ last_eval = NoEval

NextBmi ==
    \/ SetHeight
    \/ SetWeight
    \/ CheckDiabetesRisk

SpecBmi == InitBmi /\ [][NextBmi]_vars

----------------------------------------------------------------------------
\* Observations the properties are stated in.

\* Rule A's predicate, on the inputs of the current page.
RuleA == glucose < 100 /\ dpf = 0 /\ bmi < 3200

\* The inputs of the bias guard other than the probability.
GuardRange == glucose < 110 /\ dpf = 0

\* The probability the model returns for the inputs of the current page.
RawProbability == PredictProba(model, UserData(age, glucose, dpf, bmi))

\* The probability the model returned for a kept assessment.
RawOf(e) == PredictProba(model, e.user_data)

Rank(level) ==
    IF level = "LOW" THEN 1 ELSE IF level = "MODERATE" THEN 2 ELSE 3

\* The band the thresholds 35 and 70 give a probability.
Banded(p) ==
    IF p < 35 THEN "LOW" ELSE IF p < 70 THEN "MODERATE" ELSE "HIGH"

\* The current page and the kept one assess the same glucose, pedigree and
\* bmi (user_data[2], [6], [7]).
SamePolicyInputs ==
    /\ button
    /\ last_eval.pressed
    /\ last_eval.user_data[2] = glucose
    /\ last_eval.user_data[6] = dpf
    /\ last_eval.user_data[7] = bmi

----------------------------------------------------------------------------
\* C1 (Rule A): whenever an assessment is rendered for inputs with
\* glucose < 100, diabetes_pedigree = 0.0 and bmi < 32, the band is LOW
\* whatever the model returned, and the explainer was not called: no
\* contributions were computed and no attribution line is shown.
C1_RuleAForcesLow ==
    (button /\ RuleA) =>
        /\ risk_level = "LOW"
        /\ shap_values = <<>>
        /\ explanation = <<>>

\* Rule A holds, the model returned 70 (HIGH by the thresholds), the page
\* shows LOW.
C1_Witness ==
    /\ button
    /\ RuleA
    /\ RawProbability = 70
    /\ risk_level = "LOW"
    /\ shap_values = <<>>

\* C2 (Rule B): whenever the model returned more than 70 for inputs with
\* glucose < 110 and diabetes_pedigree = 0.0 for which Rule A is false, the
\* effective probability is exactly 55 and the band is MODERATE.
C2_BiasGuardClamps ==
    (button /\ RawProbability > 70 /\ GuardRange /\ ~RuleA) =>
        /\ probability = 55
        /\ risk_level = "MODERATE"

\* The guard has fired at glucose 100, just outside Rule A.
C2_Witness ==
    /\ button
    /\ RawProbability = 100
    /\ glucose = 100
    /\ dpf = 0
    /\ ~RuleA
    /\ probability = 55
    /\ risk_level = "MODERATE"

\* C3 (banding): the band rendered is LOW if Rule A holds; otherwise it is
\* LOW for an effective probability below 35, MODERATE from 35 to below 70
\* and HIGH from 70 on, so 35 is MODERATE and 70 is HIGH.
C3_Banding ==
    button =>
        /\ RuleA => risk_level = "LOW"
        /\ ~RuleA => risk_level = Banded(probability)
        /\ (~RuleA /\ probability = 35) => risk_level = "MODERATE"
        /\ (~RuleA /\ probability = 70) => risk_level = "HIGH"

\* Both boundaries: the page shows 70 as HIGH and the page before it
\* showed 35 as MODERATE, neither under Rule A.
C3_Witness ==
    /\ button
    /\ ~RuleA
    /\ probability = 70
    /\ risk_level = "HIGH"
    /\ last_eval.pressed
    /\ ~last_eval.medically_low_risk
    /\ last_eval.probability = 35
    /\ last_eval.risk_level = "MODERATE"

\* C4 as stated (monotonicity in the raw probability): for inputs for which
\* Rule A is false the band is LOW below a raw probability of 35, MODERATE
\* from 35 to below 70 and HIGH from 70 on, and of two assessments of the
\* same glucose, pedigree and bmi the one with the larger raw probability
\* never has the lower band.
C4_MonotoneAsStated ==
    /\ (button /\ ~RuleA) => risk_level = Banded(RawProbability)
    /\ (SamePolicyInputs /\ ~RuleA /\ RawOf(last_eval) <= RawProbability) =>
           Rank(last_eval.risk_level) <= Rank(risk_level)

\* C4 amended: the same, for inputs outside the range of the bias guard
\* (glucose >= 110 or diabetes_pedigree > 0.0).
C4_MonotoneOutsideGuard ==
    /\ (button /\ ~RuleA /\ ~GuardRange) =>
           risk_level = Banded(RawProbability)
    /\ (SamePolicyInputs /\ ~RuleA /\ ~GuardRange
            /\ RawOf(last_eval) <= RawProbability) =>
           Rank(last_eval.risk_level) <= Rank(risk_level)

\* Two assessments of the same glucose, pedigree and bmi outside the guard's
\* range: raw 69 was MODERATE, raw 70 is HIGH.
C4_Witness ==
    /\ SamePolicyInputs
    /\ ~RuleA
    /\ ~GuardRange
    /\ RawOf(last_eval) = 69
    /\ last_eval.risk_level = "MODERATE"
    /\ RawProbability = 70
    /\ risk_level = "HIGH"

\* C5 as stated: the bmi shown is the hundredth nearest to
\* weight_kg / (height_cm / 100)^2; it is 19.03 for 170 cm and 70 kg and
\* 40.0 for 150 cm and 90 kg.
C5_BmiAsStated ==
    /\ 2 * Abs(bmi * height_cm * height_cm - weight_kg * 1000000)
           <= height_cm * height_cm
    /\ (height_cm = 170 /\ weight_kg = 70) => bmi = 1903
    /\ (height_cm = 150 /\ weight_kg = 90) => bmi = 4000

\* C5 amended: the bmi shown is the hundredth nearest to
\* weight_kg / (height_cm / 100)^2; it is 24.22 for 170 cm and 70 kg and
\* 40.0 for 150 cm and 90 kg.
C5_BmiDerived ==
    /\ 2 * Abs(bmi * height_cm * height_cm - weight_kg * 1000000)
           <= height_cm * height_cm
    /\ (height_cm = 170 /\ weight_kg = 70) => bmi = 2422
    /\ (height_cm = 150 /\ weight_kg = 90) => bmi = 4000

\* A pressed run has computed the bmi of 170 cm and 70 kg.
C5_Witness ==
    /\ button
    /\ height_cm = 170
    /\ weight_kg = 70
    /\ bmi = 2422

\* a is listed before b: larger absolute contribution, or an equal one and
\* the earlier column.
ListedBefore(a, b) ==
    \/ Abs(shap_values[a]) > Abs(shap_values[b])
    \/ Abs(shap_values[a]) = Abs(shap_values[b]) /\ a < b

\* C6 (attribution ranking): whenever an assessment is rendered for inputs
\* for which Rule A is false, three attribution lines are shown, each line
\* names a feature that is listed before the features of the lines below it
\* and before every feature not shown, where equal absolute contributions
\* are listed in column order.
C6_TopThreeRanking ==
    (button /\ ~RuleA) =>
        /\ Len(shap_values) = 8
        /\ Len(explanation) = 3
        /\ \A i \in 1..3 : explanation[i].feature \in 1..8
        /\ \A i \in 1..3 : \A j \in (i + 1)..3 :
               ListedBefore(explanation[i].feature, explanation[j].feature)
        /\ \A i \in 1..3 :
               \A f \in 1..8 \ {explanation[j].feature : j \in 1..3} :
                   ListedBefore(explanation[i].feature, f)

\* Ties at the top (columns 2 and 5) and for the third place (columns 4
\* and 6): the lines name 2, 5 and 4.
C6_Witness ==
    /\ button
    /\ ~RuleA
    /\ shap_values = <<0, 4, -1, 2, -4, 2, 0, 1>>
    /\ explanation[1].feature = 2
    /\ explanation[2].feature = 5
    /\ explanation[3].feature = 4

\* The steps that render an assessment.
Evaluation == button'

\* C7 (idempotence): an assessment of the inputs of the assessment before it
\* shows the same band, probability, meter and attribution lines; and a run
\* that renders an assessment changes neither the widgets nor the model nor
\* the reference data.
C7_Idempotent ==
    /\ [](  (button /\ last_eval.pressed
                /\ last_eval.user_data = UserData(age, glucose, dpf, bmi))
            => last_eval = Rendered)
    /\ [][Evaluation => UNCHANGED <<widgets, model, X>>]_vars

\* The same inputs assessed twice, outside Rule A, with attribution lines.
C7_Witness ==
    /\ button
    /\ last_eval.pressed
    /\ last_eval.user_data = UserData(age, glucose, dpf, bmi)
    /\ ~RuleA
    /\ Len(explanation) = 3
    /\ last_eval = Rendered

\* C8 (band and meter): every assessment rendered shows one of the three
\* bands, and the meter is 0.25 for LOW, 0.60 for MODERATE and 0.90 for
\* HIGH.
C8_BandAndMeter ==
    button =>
        /\ risk_level \in {"LOW", "MODERATE", "HIGH"}
        /\ risk_level = "LOW" => progress = 25
        /\ risk_level = "MODERATE" => progress = 60
        /\ risk_level = "HIGH" => progress = 90

\* HIGH at a probability of 100: the meter is 0.90.
C8_Witness ==
    /\ button
    /\ probability = 100
    /\ risk_level = "HIGH"
    /\ progress = 90

\* C9 (the guard prevents HIGH): no assessment of inputs with glucose < 110
\* and diabetes_pedigree = 0.0 shows HIGH.
C9_NeverHighInGuardRange ==
    (button /\ GuardRange) => risk_level # "HIGH"

\* The probability rendered is not the one the model returned.
Overwritten == button /\ probability # RawProbability

\* C10 as stated: the probability is overwritten only where Rule A is
\* false, and whenever it is overwritten it is 55 and the band is MODERATE.
C10_ExclusiveAsStated ==
    Overwritten =>
        /\ ~RuleA
        /\ probability = 55
        /\ risk_level = "MODERATE"

\* C10 amended: whenever the probability is overwritten it is 55; the band
\* is then MODERATE where Rule A is false and LOW where Rule A holds (the
\* guard overwrites there too).
C10_OverwriteThenBand ==
    Overwritten =>
        /\ probability = 55
        /\ ~RuleA => risk_level = "MODERATE"
        /\ RuleA => risk_level = "LOW"

\* The guard has overwritten the probability outside Rule A (MODERATE), and
\* on the page before it under Rule A (LOW).
C10_Witness ==
    /\ Overwritten
    /\ ~RuleA
    /\ risk_level = "MODERATE"
    /\ last_eval.pressed
    /\ last_eval.medically_low_risk
    /\ last_eval.probability = 55
    /\ last_eval.risk_level = "LOW"

====
